---- MODULE Spec2Model ----
(***************************************************************************)
(* Keyframe compilation and chain composition of cosmic-time's Column      *)
(* keyframes (src/keyframes/column.rs).                                    *)
(*                                                                         *)
(* Two builders are modelled, each as its own state machine over the same  *)
(* variables:                                                              *)
(*   SpecColumn : Column::new / Column::lazy, the setters, the conversion  *)
(*                into Vec<Option<Frame>>, and Column::as_widget reading   *)
(*                the seven slots back from the timeline;                  *)
(*   SpecChain  : Chain::new / Chain::with_children, link, loop_forever,   *)
(*                loop_once and the conversion into timeline::Chain.       *)
(* f32 values are modelled by integers (no arithmetic is performed on      *)
(* them by this code, they are only moved around).                         *)
(***************************************************************************)
EXTENDS Integers, Sequences, FiniteSets, TLC

VARIABLES
    col,        \* the Column under construction (struct Column)
    cpc,        \* position of the Column's owner: "start", "building", "converted", "settled"
    hist,       \* history: constructor used, timing given, last argument of every setter
    frames,     \* result of Vec<Option<Frame>>::from(column)
    timeline,   \* what timeline.get(&id, i) returns for i = 0..6
    widget,     \* the widget::Column built by Column::as_widget
    chain,      \* the Chain under construction (struct Chain)
    chpc,       \* position of the Chain's owner: "start", "building", "converted"
    chist,      \* history: constructor and id given, columns given in call order, last two loop_* calls
    tchain      \* result of crate::timeline::Chain::from(chain)

vars == <<col, cpc, hist, frames, timeline, widget, chain, chpc, chist, tchain>>
colVars == <<col, cpc, hist, frames, timeline, widget>>
chainVars == <<chain, chpc, chist, tchain>>

----------------------------------------------------------------------------
(* Bounds of the model *)

MaxStep == 5        \* pixel inputs are 0, 10, ..., 10 * MaxStep
MaxLinks == 3       \* a chain holds at most this many links
MaxSeed == 2        \* with_children is given at most this many children

----------------------------------------------------------------------------
(* Option<T> *)

None == [tag |-> "None"]
Some(v) == [tag |-> "Some", val |-> v]
IsSome(o) == o.tag = "Some"
IsNone(o) == o.tag = "None"

\* Option::unwrap_or
UnwrapOr(o, d) == IF IsSome(o) THEN o.val ELSE d

----------------------------------------------------------------------------
(* Input domains *)

Px == {10 * k : k \in 0..MaxStep}

\* iced_native::Length
Fill == [tag |-> "Fill"]
Shrink == [tag |-> "Shrink"]
FillPortion(n) == [tag |-> "FillPortion", n |-> n]
Fixed(px) == [tag |-> "Fixed", px |-> px]
Lengths == {Fill, Shrink, FillPortion(2)} \cup {Fixed(p) : p \in Px}

\* iced_native::Padding
Pad(t, r, b, l) == [top |-> t, right |-> r, bottom |-> b, left |-> l]
Paddings == {Pad(0, 0, 0, 0), Pad(10, 20, 30, 40), Pad(40, 10, 20, 30)}

\* MovementType
Timings == {"at_1s", "at_2s"}

\* Ease
LinearInOut == "Linear::InOut"
Eases == {LinearInOut, "Quadratic::In", "Bounce::Out"}

----------------------------------------------------------------------------
(* Frame (crate::timeline::Frame) *)

Frame_eager(at, value, ease) ==
    [at |-> at, value |-> value, ease |-> ease, is_lazy |-> FALSE]

Frame_lazy(at, value, ease) ==
    [at |-> at, value |-> value, ease |-> ease, is_lazy |-> TRUE]

\* crate::keyframes::as_f32: only a fixed length has a number
as_f32(length) ==
    IF IsSome(length) /\ length.val.tag = "Fixed" THEN Some(length.val.px) ELSE None

----------------------------------------------------------------------------
(* Column *)

Column_new(at) ==
    [at |-> at, ease |-> LinearInOut, spacing |-> None, width |-> None,
     height |-> None, padding |-> None, is_eager |-> TRUE]

Column_lazy_eager(at) ==
    [at |-> at, ease |-> LinearInOut, spacing |-> None, width |-> None,
     height |-> None, padding |-> None, is_eager |-> TRUE]

Column_lazy(at) ==
    [at |-> at, ease |-> LinearInOut, spacing |-> None, width |-> None,
     height |-> None, padding |-> None, is_eager |-> FALSE]

Column_spacing(self, spacing) == [self EXCEPT !.spacing = Some(spacing)]

Column_width_into_height(self, width) == [self EXCEPT !.height = Some(width)]

Column_width(self, width) == [self EXCEPT !.width = Some(width)]

Column_height_into_width(self, height) == [self EXCEPT !.width = Some(height)]

Column_height(self, height) == [self EXCEPT !.height = Some(height)]

Column_padding(self, padding) == [self EXCEPT !.padding = Some(padding)]

Column_ease_dropped(self, ease) == self

Column_ease(self, ease) == [self EXCEPT !.ease = ease]

\* vec![Some(Frame::lazy(column.at, 0., column.ease)); 7]
Repeat7(x) == [i \in 1..7 |-> x]

\* the conversion with the right and left padding edges exchanged
ColumnInto_swapped(column) ==
    IF column.is_eager
    THEN LET map(o) ==
                 IF IsSome(o) THEN Some(Frame_eager(column.at, o.val, column.ease)) ELSE None
             edge(e) ==
                 IF IsSome(column.padding)
                 THEN Some(Frame_eager(column.at, column.padding.val[e], column.ease))
                 ELSE None
         IN << map(column.spacing),
               edge("top"),
               edge("left"),
               edge("bottom"),
               edge("right"),
               map(as_f32(column.width)),
               map(as_f32(column.height)) >>
    ELSE Repeat7(Some(Frame_lazy(column.at, 0, column.ease)))

\* the conversion with width and height mapped like the other fields, as_f32 left out
ColumnInto_no_as_f32(column) ==
    IF column.is_eager
    THEN LET map(o) ==
                 IF IsSome(o) THEN Some(Frame_eager(column.at, o.val, column.ease)) ELSE None
             edge(e) ==
                 IF IsSome(column.padding)
                 THEN Some(Frame_eager(column.at, column.padding.val[e], column.ease))
                 ELSE None
             len(o) ==
                 IF IsSome(o)
                 THEN Some(Frame_eager(column.at, IF o.val.tag = "Fixed" THEN o.val.px ELSE 0,
                                       column.ease))
                 ELSE None
         IN << map(column.spacing),
               edge("top"),
               edge("right"),
               edge("bottom"),
               edge("left"),
               len(column.width),
               len(column.height) >>
    ELSE Repeat7(Some(Frame_lazy(column.at, 0, column.ease)))

\* impl From<Column> for Vec<Option<Frame>>; slot i of the Vec is element i + 1.
\* map(o) is o.map(|v| Frame::eager(column.at, v, column.ease)) and edge(e) is
\* column.padding.map(|p| Frame::eager(column.at, p.e, column.ease)).
ColumnInto(column) ==
    IF column.is_eager
    THEN LET map(o) ==
                 IF IsSome(o) THEN Some(Frame_eager(column.at, o.val, column.ease)) ELSE None
             edge(e) ==
                 IF IsSome(column.padding)
                 THEN Some(Frame_eager(column.at, column.padding.val[e], column.ease))
                 ELSE None
         IN << map(column.spacing),
               edge("top"),
               edge("right"),
               edge("bottom"),
               edge("left"),
               map(as_f32(column.width)),
               map(as_f32(column.height)) >>
    ELSE Repeat7(Some(Frame_lazy(column.at, 0, column.ease)))

\* v[i] of a Vec
Slot(v, i) == v[i + 1]

----------------------------------------------------------------------------
(* Reading back: Column::as_widget *)

\* timeline.get(&id, index).map(|m| m.value)
TimelineGet(tl, index) == tl[index]

\* crate::keyframes::get_length
get_length(tl, index, default) ==
    IF IsSome(TimelineGet(tl, index)) THEN Fixed(TimelineGet(tl, index).val) ELSE default

Column_as_widget(tl) ==
    [spacing |-> UnwrapOr(TimelineGet(tl, 0), 0),
     padding |-> Pad(UnwrapOr(TimelineGet(tl, 1), 0),
                     UnwrapOr(TimelineGet(tl, 2), 0),
                     UnwrapOr(TimelineGet(tl, 3), 0),
                     UnwrapOr(TimelineGet(tl, 4), 0)),
     width |-> get_length(tl, 5, Shrink),
     height |-> get_length(tl, 6, Shrink)]

\* The timeline once the animation of an eager link has run to its end: every
\* animated slot holds its frame's target value, the others were never animated.
Settled(fs) ==
    [i \in 0..6 |-> IF IsSome(Slot(fs, i)) /\ ~Slot(fs, i).val.is_lazy
                    THEN Some(Slot(fs, i).val.value) ELSE None]

----------------------------------------------------------------------------
(* The Column builder as a state machine *)

NoHist ==
    [ctor |-> "none", at |-> None, spacing |-> None, padding |-> None,
     width |-> None, height |-> None, ease |-> None]

NeverAnimated == [i \in 0..6 |-> None]

InitColumn ==
    /\ col = None
    /\ cpc = "start"
    /\ hist = NoHist
    /\ frames = << >>
    /\ timeline = NeverAnimated
    /\ widget = None

\* let c = Column::new(at)
New ==
    /\ cpc = "start"
    /\ \E at \in Timings :
         /\ col' = Column_new(at)
         /\ hist' = [hist EXCEPT !.ctor = "new", !.at = Some(at)]
    /\ cpc' = "building"
    /\ UNCHANGED <<frames, timeline, widget, chainVars>>

\* let c = Column::lazy(at)
Lazy ==
    /\ cpc = "start"
    /\ \E at \in Timings :
         /\ col' = Column_lazy(at)
         /\ hist' = [hist EXCEPT !.ctor = "lazy", !.at = Some(at)]
    /\ cpc' = "building"
    /\ UNCHANGED <<frames, timeline, widget, chainVars>>

\* c = c.spacing(s)
SetSpacing ==
    /\ cpc = "building"
    /\ \E s \in Px :
         /\ col' = Column_spacing(col, s)
         /\ hist' = [hist EXCEPT !.spacing = Some(s)]
    /\ UNCHANGED <<cpc, frames, timeline, widget, chainVars>>

\* c = c.width(w)
SetWidth ==
    /\ cpc = "building"
    /\ \E w \in Lengths :
         /\ col' = Column_width(col, w)
         /\ hist' = [hist EXCEPT !.width = Some(w)]
    /\ UNCHANGED <<cpc, frames, timeline, widget, chainVars>>

\* c = c.height(h)
SetHeight ==
    /\ cpc = "building"
    /\ \E h \in Lengths :
         /\ col' = Column_height(col, h)
         /\ hist' = [hist EXCEPT !.height = Some(h)]
    /\ UNCHANGED <<cpc, frames, timeline, widget, chainVars>>

\* c = c.padding(p)
SetPadding ==
    /\ cpc = "building"
    /\ \E p \in Paddings :
         /\ col' = Column_padding(col, p)
         /\ hist' = [hist EXCEPT !.padding = Some(p)]
    /\ UNCHANGED <<cpc, frames, timeline, widget, chainVars>>

\* c = c.ease(e)
SetEase ==
    /\ cpc = "building"
    /\ \E e \in Eases :
         /\ col' = Column_ease(col, e)
         /\ hist' = [hist EXCEPT !.ease = Some(e)]
    /\ UNCHANGED <<cpc, frames, timeline, widget, chainVars>>

\* let frames: Vec<Option<Frame>> = c.into()
Compile ==
    /\ cpc = "building"
    /\ frames' = ColumnInto(col)
    /\ cpc' = "converted"
    /\ UNCHANGED <<col, hist, timeline, widget, chainVars>>

\* the timeline plays an eager link to its end; the view is not yet rebuilt
Settle ==
    /\ cpc = "converted"
    /\ col.is_eager
    /\ timeline' = Settled(frames)
    /\ widget' = None
    /\ cpc' = "settled"
    /\ UNCHANGED <<col, hist, frames, chainVars>>

\* view(): Column::as_widget(id, &timeline)
AsWidget ==
    /\ cpc \in {"converted", "settled"}
    /\ widget' = Some(Column_as_widget(timeline))
    /\ UNCHANGED <<col, cpc, hist, frames, timeline, chainVars>>

NextColumn ==
    \/ New
    \/ Lazy
    \/ SetSpacing
    \/ SetWidth
    \/ SetHeight
    \/ SetPadding
    \/ SetEase
    \/ Compile
    \/ Settle
    \/ AsWidget

----------------------------------------------------------------------------
(* Id and Chain *)

\* struct Id(iced_native::widget::Id): a wrapper around an opaque widget id
WidgetIds == {"wid_a", "wid_b"}
Ids == {[inner |-> w] : w \in WidgetIds}

\* impl From<Id> for widget::Id
IdInto(id) == id.inner

Never == "Never"
Forever == "Forever"

Chain_new_forever(id) == [id |-> id, links |-> << >>, repeat |-> Forever]

Chain_new(id) == [id |-> id, links |-> << >>, repeat |-> Never]

Chain_with_children(id, children) == [id |-> id, links |-> children, repeat |-> Never]

Chain_link_front(self, container) == [self EXCEPT !.links = <<container>> \o self.links]

\* self.links.push(container)
Chain_link(self, container) == [self EXCEPT !.links = Append(self.links, container)]

Chain_loop_forever(self) == [self EXCEPT !.repeat = Forever]

Chain_loop_once_kept(self) == self

Chain_loop_once(self) == [self EXCEPT !.repeat = Never]

\* crate::timeline::Chain::new(id, repeat, links)
TimelineChain_new(id, repeat, links) == [id |-> id, repeat |-> repeat, links |-> links]

\* impl From<Chain> for crate::timeline::Chain
ChainInto(c) ==
    TimelineChain_new(IdInto(c.id), c.repeat,
                      [i \in 1..Len(c.links) |-> ColumnInto(c.links[i])])

\* the Columns handed to chains: built with the Column builder itself
ColumnSamples ==
    { Column_spacing(Column_new("at_1s"), 10),
      Column_width(Column_spacing(Column_new("at_2s"), 10), Fixed(50)),
      Column_ease(Column_padding(Column_new("at_1s"), Pad(10, 20, 30, 40)), "Quadratic::In"),
      Column_height(Column_lazy("at_2s"), Fill) }

SeqsUpTo(S, n) == UNION {[1..k -> S] : k \in 0..n}

----------------------------------------------------------------------------
(* The Chain builder as a state machine *)

InitChain ==
    /\ chain = None
    /\ chpc = "start"
    /\ chist = [ctor |-> "none", id |-> None, seeded |-> 0, given |-> << >>,
                loop |-> "none", prev |-> "none"]
    /\ tchain = None

\* let chain = Chain::new(id), or id.to_chain()
ChainNew ==
    /\ chpc = "start"
    /\ \E id \in Ids :
         /\ chain' = Chain_new(id)
         /\ chist' = [chist EXCEPT !.ctor = "new", !.id = Some(id)]
    /\ chpc' = "building"
    /\ UNCHANGED <<tchain, colVars>>

\* let chain = Chain::with_children(id, children), or id.to_chain_with_children(children)
ChainWithChildren ==
    /\ chpc = "start"
    /\ \E id \in Ids, children \in SeqsUpTo(ColumnSamples, MaxSeed) :
         /\ chain' = Chain_with_children(id, children)
         /\ chist' = [chist EXCEPT !.ctor = "with_children", !.id = Some(id),
                                   !.seeded = Len(children), !.given = children]
    /\ chpc' = "building"
    /\ UNCHANGED <<tchain, colVars>>

\* chain = chain.link(c)
Link ==
    /\ chpc = "building"
    /\ Len(chain.links) < MaxLinks
    /\ \E c \in ColumnSamples :
         /\ chain' = Chain_link(chain, c)
         /\ chist' = [chist EXCEPT !.given = Append(@, c)]
    /\ UNCHANGED <<chpc, tchain, colVars>>

\* chain = chain.loop_forever()
LoopForever ==
    /\ chpc = "building"
    /\ chain' = Chain_loop_forever(chain)
    /\ chist' = [chist EXCEPT !.loop = "forever", !.prev = chist.loop]
    /\ UNCHANGED <<chpc, tchain, colVars>>

\* chain = chain.loop_once()
LoopOnce ==
    /\ chpc = "building"
    /\ chain' = Chain_loop_once(chain)
    /\ chist' = [chist EXCEPT !.loop = "once", !.prev = chist.loop]
    /\ UNCHANGED <<chpc, tchain, colVars>>

\* let t: crate::timeline::Chain = chain.into()
Convert ==
    /\ chpc = "building"
    /\ tchain' = Some(ChainInto(chain))
    /\ chpc' = "converted"
    /\ UNCHANGED <<chain, chist, colVars>>

NextChain ==
    \/ ChainNew
    \/ ChainWithChildren
    \/ Link
    \/ LoopForever
    \/ LoopOnce
    \/ Convert

----------------------------------------------------------------------------
(* Specifications *)

Init == InitColumn /\ InitChain

SpecColumn == Init /\ [][NextColumn]_vars

SpecChain == Init /\ [][NextChain]_vars

----------------------------------------------------------------------------
(* Properties of the Column builder (checked under SpecColumn) *)

Compiled == cpc \in {"converted", "settled"}

Fields == {"spacing", "padding", "width", "height"}

\* the builder field a slot belongs to
FieldOf(i) ==
    CASE i = 0 -> "spacing"
      [] i \in 1..4 -> "padding"
      [] i = 5 -> "width"
      [] i = 6 -> "height"

SlotsOf(f) ==
    CASE f = "spacing" -> {0}
      [] f = "padding" -> {1, 2, 3, 4}
      [] f = "width" -> {5}
      [] f = "height" -> {6}

\* the fields a setter was called on
WasSet(f) == IsSome(hist[f])
SetFields == {f \in Fields : WasSet(f)}

\* a width or height setter was last called with a fixed length
SetFixed(f) == WasSet(f) /\ hist[f].val.tag = "Fixed"

\* the slots holding Some(frame)
Present == {i \in 0..6 : IsSome(Slot(frames, i))}

\* the number a slot is to reach, from the setters' last arguments
Target(i) ==
    CASE i = 0 -> hist.spacing
      [] i = 1 -> IF WasSet("padding") THEN Some(hist.padding.val.top) ELSE None
      [] i = 2 -> IF WasSet("padding") THEN Some(hist.padding.val.right) ELSE None
      [] i = 3 -> IF WasSet("padding") THEN Some(hist.padding.val.bottom) ELSE None
      [] i = 4 -> IF WasSet("padding") THEN Some(hist.padding.val.left) ELSE None
      [] i = 5 -> IF SetFixed("width") THEN Some(hist.width.val.px) ELSE None
      [] i = 6 -> IF SetFixed("height") THEN Some(hist.height.val.px) ELSE None

\* C1: a Column built with Column::lazy compiles to exactly 7 entries, each
\* Some(frame) with is_lazy = true and value 0, whatever setters were called
\* and whatever they were given.
C1_LazyCompilesToSevenPlaceholders ==
    (Compiled /\ hist.ctor = "lazy") =>
        /\ Len(frames) = 7
        /\ \A i \in 0..6 :
             /\ IsSome(Slot(frames, i))
             /\ Slot(frames, i).val.is_lazy
             /\ Slot(frames, i).val.value = 0

C1_Witness ==
    /\ cpc = "converted"
    /\ hist.ctor = "lazy"
    /\ hist.width = Some(Fill)
    /\ hist.spacing = Some(10)
    /\ WasSet("padding")
    /\ ~WasSet("height")

\* C2 as stated: in an eager Column every slot is Some iff a setter was called
\* on the slot's field.
C2_SomeIffSet ==
    (Compiled /\ hist.ctor = "new") =>
        \A i \in 0..6 : IsSome(Slot(frames, i)) <=> WasSet(FieldOf(i))

\* C2 amended: in an eager Column slot 0 is Some iff spacing was set, slots 1-4
\* are Some iff padding was set, and slot 5 (6) is Some iff width (height) was
\* set and its last value is a Fixed length; every other slot is None.
C2_SomeIffSetAndDefinite ==
    (Compiled /\ hist.ctor = "new") =>
        \A i \in 0..6 :
            IsSome(Slot(frames, i)) <=>
                IF i \in {5, 6} THEN SetFixed(FieldOf(i)) ELSE WasSet(FieldOf(i))

C2_Witness ==
    /\ cpc = "converted"
    /\ hist.ctor = "new"
    /\ hist.width = Some(Shrink)
    /\ hist.height = Some(Fixed(50))
    /\ WasSet("spacing")
    /\ ~WasSet("padding")
    /\ Present = {0, 6}

\* C3 as stated: an eager Column with exactly one field set compiles to exactly
\* one Some entry, at an index of that field.
C3_OneFieldOneSome ==
    (Compiled /\ hist.ctor = "new" /\ Cardinality(SetFields) = 1) =>
        /\ Cardinality(Present) = 1
        /\ \A f \in SetFields : Present \subseteq SlotsOf(f)

\* C3 amended: an eager Column with exactly one field set has Some entries at
\* exactly that field's slots: index 0 for spacing, all of 1-4 for padding,
\* index 5 (6) for a Fixed width (height), and none at all for a width or
\* height that is not Fixed; every other index is None.
C3_OneFieldItsSlots ==
    (Compiled /\ hist.ctor = "new" /\ Cardinality(SetFields) = 1) =>
        \A f \in SetFields :
            Present = IF f \in {"width", "height"} /\ ~SetFixed(f) THEN {} ELSE SlotsOf(f)

C3_Witness ==
    /\ cpc = "converted"
    /\ hist.ctor = "new"
    /\ SetFields = {"padding"}
    /\ Present = {1, 2, 3, 4}

\* what as_widget must hand to the widget once the targets are reached
Rendered ==
    [spacing |-> UnwrapOr(Target(0), 0),
     padding |-> Pad(UnwrapOr(Target(1), 0), UnwrapOr(Target(2), 0),
                     UnwrapOr(Target(3), 0), UnwrapOr(Target(4), 0)),
     width |-> IF IsSome(Target(5)) THEN Fixed(Target(5).val) ELSE Shrink,
     height |-> IF IsSome(Target(6)) THEN Fixed(Target(6).val) ELSE Shrink]

\* C4: the compiled sequence always has length 7; in eager mode a present
\* frame at index 0 carries the spacing, 1-4 padding top, right, bottom, left,
\* 5 the fixed width and 6 the fixed height, is_lazy = false; eager spacing(10)
\* with width(Fixed(50)) gives values [10, None, None, None, None, 50, None];
\* and as_widget reads each property back from the same index.
C4_SlotIndexStability ==
    /\ Compiled => Len(frames) = 7
    /\ (Compiled /\ hist.ctor = "new") =>
         /\ \A i \in 0..6 :
              IsSome(Slot(frames, i)) =>
                  /\ ~Slot(frames, i).val.is_lazy
                  /\ Target(i) = Some(Slot(frames, i).val.value)
         /\ ( /\ hist.spacing = Some(10)
              /\ hist.width = Some(Fixed(50))
              /\ ~WasSet("padding")
              /\ ~WasSet("height") ) =>
                [i \in 0..6 |-> IF IsSome(Slot(frames, i))
                                 THEN Some(Slot(frames, i).val.value) ELSE None]
                    = [i \in 0..6 |-> IF i = 0 THEN Some(10)
                                      ELSE IF i = 5 THEN Some(50) ELSE None]
    /\ (cpc = "settled" /\ IsSome(widget)) => widget.val = Rendered

C4_Witness ==
    /\ cpc = "settled"
    /\ IsSome(widget)
    /\ hist.spacing = Some(10)
    /\ hist.width = Some(Fixed(50))
    /\ hist.padding = Some(Pad(10, 20, 30, 40))
    /\ ~WasSet("height")

\* C7: in an eager Column a width (height) set to a length that is not Fixed
\* compiles slot 5 (6) to None and one set to Fixed(n) compiles it to an eager
\* frame with value n; in a lazy Column slots 5 and 6 are lazy placeholders
\* for the same settings.
C7_IndefiniteLengthDropped ==
    Compiled =>
        \A i \in {5, 6} :
            WasSet(FieldOf(i)) =>
                IF hist.ctor = "new"
                THEN IF SetFixed(FieldOf(i))
                     THEN /\ IsSome(Slot(frames, i))
                          /\ ~Slot(frames, i).val.is_lazy
                          /\ Slot(frames, i).val.value = hist[FieldOf(i)].val.px
                     ELSE IsNone(Slot(frames, i))
                ELSE /\ IsSome(Slot(frames, i))
                     /\ Slot(frames, i).val.is_lazy
                     /\ Slot(frames, i).val.value = 0

C7_Witness ==
    /\ cpc = "converted"
    /\ hist.ctor = "new"
    /\ hist.width = Some(Fill)
    /\ hist.height = Some(Fixed(50))
    /\ IsNone(Slot(frames, 5))
    /\ IsSome(Slot(frames, 6))

\* C10: every Some frame of a compiled Column, eager or lazy, carries the
\* timing given to the constructor and the easing of the last ease() call, or
\* Linear::InOut when ease() was never called; setters leave timing, easing
\* and mode alone.
C10_TimingAndEasingPassThrough ==
    /\ cpc # "start" =>
         /\ col.at = hist.at.val
         /\ col.ease = UnwrapOr(hist.ease, LinearInOut)
         /\ col.is_eager = (hist.ctor = "new")
    /\ Compiled =>
         \A i \in 0..6 :
             IsSome(Slot(frames, i)) =>
                 /\ Slot(frames, i).val.at = hist.at.val
                 /\ Slot(frames, i).val.ease = UnwrapOr(hist.ease, LinearInOut)

C10_Witness ==
    /\ cpc = "converted"
    /\ hist.ctor = "new"
    /\ hist.ease = Some("Quadratic::In")
    /\ hist.at = Some("at_2s")
    /\ {1, 2, 3, 4, 5} \subseteq Present

----------------------------------------------------------------------------
(* Properties of the Chain builder (checked under SpecChain) *)

Policy == IF chist.loop = "forever" THEN Forever ELSE Never

\* C5: the chain holds the seeded children followed by the linked Columns in
\* call order, and the converted chain has one frame group per link, the i-th
\* being the compilation of the i-th Column.
C5_ChainOrderPreserved ==
    /\ chpc # "start" => chain.links = chist.given
    /\ chpc = "converted" =>
         /\ Len(tchain.val.links) = Len(chist.given)
         /\ \A i \in 1..Len(chist.given) :
              tchain.val.links[i] = ColumnInto(chist.given[i])

C5_Witness ==
    /\ chpc = "converted"
    /\ chist.seeded = 1
    /\ Len(chist.given) = 3
    /\ chist.given[1] # chist.given[2]
    /\ chist.given[2] # chist.given[3]
    /\ chist.loop = "forever"

\* C6: repeat is Never after construction, Forever when the last loop_* call
\* was loop_forever and Never when it was loop_once or there was none; link
\* does not change it and the converted chain carries it.
C6_RepeatLastCallWins ==
    /\ chpc # "start" => chain.repeat = Policy
    /\ chpc = "converted" => tchain.val.repeat = Policy

C6_Witness ==
    /\ chpc = "converted"
    /\ chist.prev = "forever"
    /\ chist.loop = "once"
    /\ Len(chist.given) = 2

\* C9: every chain under construction can be converted, the converted chain
\* has the id given at construction, and Chain::new(id) converted at once has
\* no frame groups, that id and repeat Never.
C9_ConversionTotalKeepsId ==
    /\ chpc = "building" => ENABLED Convert
    /\ chpc # "start" => chain.id = chist.id.val
    /\ chpc = "converted" => tchain.val.id = IdInto(chist.id.val)
    /\ (chpc = "converted" /\ chist.ctor = "new" /\ chist.given = << >> /\ chist.loop = "none") =>
         tchain.val = [id |-> chist.id.val.inner, repeat |-> Never, links |-> << >>]

C9_Witness ==
    /\ chpc = "converted"
    /\ chist.ctor = "new"
    /\ chist.given = << >>
    /\ chist.loop = "none"
    /\ tchain.val.links = << >>

====
